---------------------------- MODULE Spec2Model ----------------------------
(***************************************************************************)
(* State-machine model of the BoodiBox API client (src/index.js,           *)
(* src/lib/http.js): one client, one public call per behaviour.  The       *)
(* remote service, the file system and the clock are the environment; the  *)
(* environment chooses every HTTP outcome and its latency.                 *)
(*                                                                         *)
(* JavaScript strings that the code inspects (replyPermission,             *)
(* quotePostID) are sequences of one-character strings, so that trim,      *)
(* toUpperCase, toLowerCase and the CUID regular expression are computed.  *)
(***************************************************************************)
EXTENDS Integers, Sequences, FiniteSets, TLC

(***************************************************************************)
(* Bounds of the model.                                                    *)
(***************************************************************************)
MaxRetriesCfg == 2      \* createClient({maxRetries}) ranges over 0..MaxRetriesCfg
HttpLatencyMs == 100    \* the time an HTTP exchange that is answered takes
MaxUploads == 2         \* the upload endpoint answers with at most this many ids

(***************************************************************************)
(* Program constants.                                                      *)
(***************************************************************************)
DefaultPollIntervalMs == 1000
UploadBackoffMs == 300
UploadFetchTimeoutMs == 60000
StatusFetchTimeoutMs == 15000
PostFetchTimeoutMs == 20000

Min(a, b) == IF a <= b THEN a ELSE b

(***************************************************************************)
(* JavaScript values.                                                      *)
(***************************************************************************)
JsUndefined == [t |-> "undefined", s |-> <<>>, b |-> FALSE]
JsNull == [t |-> "null", s |-> <<>>, b |-> FALSE]
JsBool(v) == [t |-> "boolean", s |-> <<>>, b |-> v]
JsStr(chars) == [t |-> "string", s |-> chars, b |-> FALSE]

\* !v
Falsy(v) ==
  \/ v.t \in {"undefined", "null"}
  \/ v.t = "boolean" /\ ~v.b
  \/ v.t = "string" /\ v.s = <<>>

\* String(v)
JsString(v) ==
  CASE v.t = "string" -> v.s
    [] v.t = "boolean" -> IF v.b THEN <<"t", "r", "u", "e">> ELSE <<"f", "a", "l", "s", "e">>
    [] v.t = "null" -> <<"n", "u", "l", "l">>
    [] OTHER -> <<"u", "n", "d", "e", "f", "i", "n", "e", "d">>

LowerLetters ==
  <<"a", "b", "c", "d", "e", "f", "g", "h", "i", "j", "k", "l", "m",
    "n", "o", "p", "q", "r", "s", "t", "u", "v", "w", "x", "y", "z">>
UpperLetters ==
  <<"A", "B", "C", "D", "E", "F", "G", "H", "I", "J", "K", "L", "M",
    "N", "O", "P", "Q", "R", "S", "T", "U", "V", "W", "X", "Y", "Z">>
Digits == {"0", "1", "2", "3", "4", "5", "6", "7", "8", "9"}

IsLower(c) == \E k \in DOMAIN LowerLetters : LowerLetters[k] = c
IsUpper(c) == \E k \in DOMAIN UpperLetters : UpperLetters[k] = c
UpperOf(c) ==
  IF IsLower(c) THEN UpperLetters[CHOOSE k \in DOMAIN LowerLetters : LowerLetters[k] = c] ELSE c
LowerOf(c) ==
  IF IsUpper(c) THEN LowerLetters[CHOOSE k \in DOMAIN UpperLetters : UpperLetters[k] = c] ELSE c

\* s.toUpperCase(), s.toLowerCase()
ToUpperCase(s) == [k \in DOMAIN s |-> UpperOf(s[k])]
ToLowerCase(s) == [k \in DOMAIN s |-> LowerOf(s[k])]

\* s.trim()
RECURSIVE TrimLeft(_)
TrimLeft(s) == IF s # <<>> /\ Head(s) = " " THEN TrimLeft(Tail(s)) ELSE s
RECURSIVE TrimRight(_)
TrimRight(s) ==
  IF s # <<>> /\ s[Len(s)] = " " THEN TrimRight(SubSeq(s, 1, Len(s) - 1)) ELSE s
Trim(s) == TrimRight(TrimLeft(s))

Rep(c, n) == [k \in 1..n |-> c]

\* /^[a-z][a-z0-9]{23,31}$/i
CUID2_REGEX(s) ==
  /\ Len(s) >= 1
  /\ IsLower(LowerOf(s[1]))
  /\ Len(s) - 1 >= 23
  /\ Len(s) - 1 <= 31
  /\ \A k \in 2..Len(s) : IsLower(LowerOf(s[k])) \/ s[k] \in Digits

REPLY_PERMISSIONS == {<<"P", "R", "I", "V", "A", "T", "E">>, <<"P", "U", "B", "L", "I", "C">>}
PUBLIC == <<"P", "U", "B", "L", "I", "C">>

(***************************************************************************)
(* Validation.  A validator yields [throws, value]; value is a JS value.   *)
(***************************************************************************)
Valid(v) == [throws |-> FALSE, value |-> v, message |-> <<>>]
Invalid(m) == [throws |-> TRUE, value |-> JsUndefined, message |-> m]

\* validateReplyPermission taking an empty or falsy value for an omitted one.
validateReplyPermission_EmptyIsDefault(rp) ==
  IF rp.t = "undefined" \/ rp.t = "null" \/ (rp.t = "string" /\ Trim(rp.s) = <<>>) \/ Falsy(rp)
    THEN Valid(JsUndefined)
  ELSE IF ToUpperCase(JsString(rp)) \notin REPLY_PERMISSIONS
    THEN Invalid(<<"replyPermission must be one of: PRIVATE, PUBLIC">>)
  ELSE Valid(JsStr(ToUpperCase(JsString(rp))))

\* validateReplyPermission returning the value as it was supplied.
validateReplyPermission_AsSupplied(rp) ==
  IF rp.t = "undefined" THEN Valid(JsUndefined)
  ELSE IF rp.t = "null" \/ (rp.t = "string" /\ Trim(rp.s) = <<>>) \/ Falsy(rp)
    THEN Invalid(<<"replyPermission cannot be empty">>)
  ELSE IF ToUpperCase(JsString(rp)) \notin REPLY_PERMISSIONS
    THEN Invalid(<<"replyPermission must be one of: PRIVATE, PUBLIC">>)
  ELSE Valid(JsStr(JsString(rp)))

validateReplyPermission(rp) ==
  IF rp.t = "undefined" THEN Valid(JsUndefined)
  ELSE IF rp.t = "null" \/ (rp.t = "string" /\ Trim(rp.s) = <<>>) \/ Falsy(rp)
    THEN Invalid(<<"replyPermission cannot be empty">>)
  ELSE IF ToUpperCase(JsString(rp)) \notin REPLY_PERMISSIONS
    THEN Invalid(<<"replyPermission must be one of: PRIVATE, PUBLIC">>)
  ELSE Valid(JsStr(ToUpperCase(JsString(rp))))

validateQuotePostID(id) ==
  IF id.t \in {"null", "undefined"} THEN Valid(JsUndefined)
  ELSE IF ~CUID2_REGEX(Trim(JsString(id)))
    THEN Invalid(<<"quotePostID must be a valid CUID v2-style id">>)
  ELSE Valid(JsStr(ToLowerCase(Trim(JsString(id)))))

(***************************************************************************)
(* HTTP bodies, responses and errors.                                      *)
(***************************************************************************)
\* A body: kind "object" is a JSON object, "unparsable" is text that is not
\* JSON, "null" is what safeParseJSON yields on a parse failure, "absent"
\* is an error property that was never set.
Obj(success, reason, uploads, status, src, post) ==
  [kind |-> "object", success |-> success, reason |-> reason, uploads |-> uploads,
   status |-> status, src |-> src, missing |-> FALSE, post |-> post]
Unparsable == [Obj(FALSE, "", <<>>, "", "", "") EXCEPT !.kind = "unparsable"]
NullBody == [Obj(FALSE, "", <<>>, "", "", "") EXCEPT !.kind = "null"]
AbsentBody == [Obj(FALSE, "", <<>>, "", "", "") EXCEPT !.kind = "absent"]
\* { missing: true }
MissingStatus == [Obj(FALSE, "", <<>>, "", "", "") EXCEPT !.missing = TRUE]

\* resp.ok
RespOk(resp) == resp.status >= 200 /\ resp.status <= 299
\* `${resp.status} ${resp.statusText}`
StatusLine(resp) ==
  CASE resp.status = 404 -> "404 Not Found"
    [] resp.status = 500 -> "500 Internal Server Error"
    [] OTHER -> "200 OK"

safeParseJSON(resp) == IF resp.body.kind = "unparsable" THEN NullBody ELSE resp.body

\* An Error object: message (a sequence of parts), status (0: not set),
\* body, code, and the status object attached as uploadStatus / statusObj.
Err(message, status, body, code, statusObj) ==
  [message |-> message, status |-> status, body |-> body, code |-> code,
   statusObj |-> statusObj]
NoErr == Err(<<>>, 0, AbsentBody, "", AbsentBody)
PlainErr(message) == Err(message, 0, AbsentBody, "", AbsentBody)

(***************************************************************************)
(* fetchWithTimeout as seen by its caller: the transport answers within    *)
(* the timeout, fails by itself, or is aborted when the timer fires.       *)
(***************************************************************************)
fetchWithTimeout(responses, timeoutMs) ==
  {[kind |-> "response", resp |-> r, dt |-> d, err |-> NoErr] :
     r \in responses, d \in {l \in {HttpLatencyMs} : l < timeoutMs}}
  \cup {[kind |-> "throw", resp |-> [status |-> 0, body |-> AbsentBody], dt |-> 0,
         err |-> PlainErr(<<"fetch failed">>)]}
  \cup {[kind |-> "throw", resp |-> [status |-> 0, body |-> AbsentBody], dt |-> timeoutMs,
         err |-> Err(<<"Request timed out after", "ms">>, 0, AbsentBody, "ETIMEDOUT",
                     AbsentBody)]}

(***************************************************************************)
(* What the remote service can answer.                                     *)
(***************************************************************************)
UploadIds == <<"U1", "U2", "U3", "U4">>
UploadLists == {SubSeq(UploadIds, 1, n) : n \in 0..MaxUploads}
UploadSrcs == <<"S1", "S2", "S3", "S4">>
\* The src the service resolves for an upload id.
SrcOf(id) == UploadSrcs[CHOOSE k \in DOMAIN UploadIds : UploadIds[k] = id]

UploadResponses ==
  {[status |-> 200, body |-> Obj(TRUE, "", u, "", "", "")] : u \in UploadLists}
  \cup {[status |-> 200, body |-> Obj(FALSE, "rejected", <<>>, "", "", "")],
        [status |-> 500, body |-> Obj(FALSE, "quota", <<>>, "", "", "")],
        [status |-> 500, body |-> Unparsable]}

StatusResponses(id) ==
  {[status |-> 200, body |-> Obj(FALSE, "", <<>>, "PROCESSED", s, "")] : s \in {"", SrcOf(id)}}
  \cup {[status |-> 200, body |-> Obj(FALSE, "", <<>>, st, "", "")] :
          st \in {"PENDING", "DELETED", "ATTACHED"}}
  \cup {[status |-> 404, body |-> Unparsable],
        [status |-> 500, body |-> Obj(FALSE, "boom", <<>>, "", "", "")],
        [status |-> 500, body |-> Unparsable]}

PostResponses ==
  {[status |-> 200, body |-> Obj(FALSE, "", <<>>, "", "", "P1")],
   [status |-> 500, body |-> Obj(FALSE, "denied", <<>>, "", "", "")],
   [status |-> 500, body |-> Unparsable]}

(***************************************************************************)
(* uploadFiles, getUploadStatus and the request of submitPost as functions *)
(* from the arguments to the set of outcomes the environment can produce.  *)
(* An outcome: ok, the value or the error, the time it took, and whether   *)
(* an HTTP request was issued.                                             *)
(***************************************************************************)
NoResp == [status |-> 0, body |-> AbsentBody]
Outcome(ok, value, err, dt, resp) ==
  [ok |-> ok, value |-> value, err |-> err, dt |-> dt, http |-> TRUE, resp |-> resp]
\* The call failed before it issued any request.
Early(value, err) ==
  [ok |-> FALSE, value |-> value, err |-> err, dt |-> 0, http |-> FALSE, resp |-> NoResp]

\* A file item by the truthiness of its properties.
FileItem(p, b, f) == [path |-> p, buffer |-> b, file |-> f]
IsBadItem(f) == ~f.path /\ ~f.buffer /\ ~f.file
\* The index of the first item with none of path, buffer, file; 0 if none.
FirstBad(items) ==
  IF \E k \in DOMAIN items : IsBadItem(items[k])
  THEN CHOOSE k \in DOMAIN items :
         IsBadItem(items[k]) /\ \A j \in 1..(k - 1) : ~IsBadItem(items[j])
  ELSE 0
\* fs.readFileSync runs for the path items the loop reaches.
ReadsFile(items) ==
  \E k \in DOMAIN items : items[k].path /\ (FirstBad(items) = 0 \/ k < FirstBad(items))

uploadFilesHttp(o) ==
  IF o.kind = "throw" THEN Outcome(FALSE, <<>>, o.err, o.dt, o.resp)
  ELSE IF ~RespOk(o.resp) THEN
    LET body == safeParseJSON(o.resp)
        reason == IF body.kind = "object" /\ body.reason # "" THEN body.reason
                  ELSE StatusLine(o.resp)
    IN Outcome(FALSE, <<>>, Err(<<"Upload failed: ", reason>>, o.resp.status, body, "",
                                AbsentBody), o.dt, o.resp)
  ELSE IF ~o.resp.body.success THEN
    Outcome(FALSE, <<>>, Err(<<"upload endpoint returned success=false">>, 0, o.resp.body,
                             "", AbsentBody), o.dt, o.resp)
  ELSE Outcome(TRUE, o.resp.body.uploads, NoErr, o.dt, o.resp)

uploadFiles(files) ==
  IF ~files.isArray \/ Len(files.items) = 0 THEN
    {Early(<<>>, PlainErr(<<"files must be a non-empty array">>))}
  ELSE
    (IF ReadsFile(files.items)
     THEN {Early(<<>>, PlainErr(<<"ENOENT">>))} ELSE {})
    \cup
    (IF FirstBad(files.items) # 0
     THEN {Early(<<>>, PlainErr(<<"each file must contain either path, buffer, or file">>))}
     ELSE {uploadFilesHttp(o) : o \in fetchWithTimeout(UploadResponses, UploadFetchTimeoutMs)})

\* getUploadStatusHttp taking every failed request for a not-found answer.
getUploadStatusHttp_SwallowErrors(o) ==
  IF o.kind = "throw" \/ ~RespOk(o.resp) THEN Outcome(TRUE, MissingStatus, NoErr, o.dt, o.resp)
  ELSE Outcome(TRUE, o.resp.body, NoErr, o.dt, o.resp)

getUploadStatusHttp(o) ==
  IF o.kind = "throw" THEN Outcome(FALSE, AbsentBody, o.err, o.dt, o.resp)
  ELSE IF o.resp.status = 404 THEN Outcome(TRUE, MissingStatus, NoErr, o.dt, o.resp)
  ELSE IF ~RespOk(o.resp) THEN
    Outcome(FALSE, AbsentBody,
            Err(<<"Failed to fetch upload status">>, o.resp.status, safeParseJSON(o.resp),
                "", AbsentBody), o.dt, o.resp)
  ELSE Outcome(TRUE, o.resp.body, NoErr, o.dt, o.resp)

getUploadStatus(uploadId) ==
  {getUploadStatusHttp(o) :
     o \in fetchWithTimeout(StatusResponses(uploadId), StatusFetchTimeoutMs)}

submitPostHttp(o) ==
  IF o.kind = "throw" THEN Outcome(FALSE, AbsentBody, o.err, o.dt, o.resp)
  ELSE IF ~RespOk(o.resp) THEN
    Outcome(FALSE, AbsentBody,
            Err(<<"submit post failed">>, o.resp.status, safeParseJSON(o.resp), "",
                AbsentBody), o.dt, o.resp)
  ELSE Outcome(TRUE, o.resp.body, NoErr, o.dt, o.resp)

\* The synchronous head of submitPost: [throws, payload].
submitPostPayload(medias, replyPermission, quotePostID) ==
  LET rp == IF replyPermission.t = "undefined" THEN Valid(JsStr(PUBLIC))
            ELSE validateReplyPermission(replyPermission)
      qid == IF quotePostID.t \in {"null", "undefined"} THEN Valid(JsNull)
             ELSE validateQuotePostID(quotePostID)
  IN [throws |-> rp.throws \/ qid.throws,
      message |-> IF rp.throws THEN rp.message ELSE qid.message,
      payload |-> [medias |-> medias, replyPermission |-> rp.value,
                   quotePostID |-> qid.value]]

\* .catch(err => { throw new Error(`Uploading files failed: ${err.message}`) })
WrapUploadError(err) == PlainErr(<<"Uploading files failed: ">> \o err.message)

(***************************************************************************)
(* retryAsync, the poll loop and the loop of submitPostWithFiles, as the   *)
(* decisions they take.                                                    *)
(***************************************************************************)
\* retryAsyncDelay with a constant delay.
retryAsyncDelay_Constant(i, backoffMs) == backoffMs
\* retryAsyncThrown rethrowing the first error it caught.
retryAsyncThrown_First(errs) == errs[1]
\* retried with every caller of uploadFiles under retryAsync.
retried_Always(operation) == TRUE

\* retryAsyncCatches passing on the errors thrown before any request was made.
retryAsyncCatches_RequestErrorsOnly(e) ==
  e.message \notin {<<"each file must contain either path, buffer, or file">>,
                     <<"files must be a non-empty array">>, <<"ENOENT">>}

\* try { return await fn(); } catch (e) { ... }: the errors the catch takes.
retryAsyncCatches(e) == TRUE
\* catch (e) { i++; if (i > retries) throw e; await wait(backoffMs * i); }
retryAsyncGivesUp(i, retries) == i > retries
retryAsyncDelay(i, backoffMs) == backoffMs * i
\* The error retryAsync rethrows: the one it just caught.
retryAsyncThrown(errs) == errs[Len(errs)]

\* options.x ?? config.x
Opt(v) == [set |-> TRUE, v |-> v]
NoOpt == [set |-> FALSE, v |-> 0]
Coalesce(o, d) == IF o.set THEN o.v ELSE d

\* pollUntilProcessedStep stopping on PROCESSED only.
pollUntilProcessedStep_ProcessedOnly(statusObj, elapsed, timeoutMs) ==
  IF statusObj.status = "PROCESSED" THEN "return"
  ELSE IF elapsed > timeoutMs THEN "timeout"
  ELSE "wait"

\* pollUntilProcessedStep with not-found ending the loop.
pollUntilProcessedStep_MissingEnds(statusObj, elapsed, timeoutMs) ==
  IF statusObj.status = "PROCESSED" \/ statusObj.missing THEN "return"
  ELSE IF statusObj.status = "DELETED" \/ statusObj.status = "ATTACHED" THEN "return"
  ELSE IF elapsed > timeoutMs THEN "timeout"
  ELSE "wait"

\* pollUntilProcessedStep without the test of the timeout.
pollUntilProcessedStep_NoDeadline(statusObj, elapsed, timeoutMs) ==
  IF statusObj.status = "PROCESSED" THEN "return"
  ELSE IF statusObj.status = "DELETED" \/ statusObj.status = "ATTACHED" THEN "return"
  ELSE "wait"

\* One turn of the loop of pollUntilProcessed after a status came back.
pollUntilProcessedStep(statusObj, elapsed, timeoutMs) ==
  IF statusObj.status = "PROCESSED" THEN "return"
  ELSE IF statusObj.status = "DELETED" \/ statusObj.status = "ATTACHED" THEN "return"
  ELSE IF elapsed > timeoutMs THEN "timeout"
  ELSE "wait"

\* pollTimeoutError without the status attached.
pollTimeoutError_NoStatus(statusObj) ==
  Err(<<"polling timeout waiting for processed">>, 0, AbsentBody, "", AbsentBody)

\* The error of pollUntilProcessed when its timeout elapsed: e.uploadStatus = statusObj.
pollTimeoutError(statusObj) ==
  Err(<<"polling timeout waiting for processed">>, 0, AbsentBody, "", statusObj)

\* The operations that run uploadFiles under retryAsync.
retried(operation) == operation = "submitPostWithFiles"

\* uploadVerdict without the check of src.
uploadVerdict_NoSrcCheck(statusObj) ==
  IF statusObj.status # "PROCESSED" THEN "terminal" ELSE "collect"

\* uploadVerdict going on to the next upload after DELETED or ATTACHED.
uploadVerdict_KeepGoing(statusObj) ==
  IF statusObj.status = "PROCESSED" /\ statusObj.src = "" THEN "nosrc" ELSE "collect"

\* What submitPostWithFiles does with the status a poll returned.
uploadVerdict(statusObj) ==
  IF statusObj.status # "PROCESSED" THEN "terminal"
  ELSE IF statusObj.src = "" THEN "nosrc"
  ELSE "collect"

\* start taken when submitPostWithFiles is entered.
deadlineStart_AtCall(calledAt, uploadedAt) == calledAt

\* const start = Date.now(), as submitPostWithFiles takes it.
deadlineStart(calledAt, uploadedAt) == uploadedAt
\* timeoutMs - (Date.now() - start)
remainingTime(timeoutMs, t, startedAt) == timeoutMs - (t - startedAt)
\* deadlineExhausted without the check at the head of the loop.
deadlineExhausted_Unchecked(remaining) == FALSE

\* if (remainingTime <= 0) throw new Error('Timeout while waiting ...')
deadlineExhausted(remaining) == remaining <= 0
\* collectSrc putting the newest src first.
collectSrc_Prepend(srcs, src) == <<src>> \o srcs

\* finalSrcs.push(statusObj.src)
collectSrc(srcs, src) == Append(srcs, src)
\* Math.min(remainingTime, pollOptions.timeoutMs ?? config.pollTimeoutMs)
pollTimeoutFor(remaining, pollTimeoutOpt, cfgPollTimeoutMs) ==
  Min(remaining, Coalesce(pollTimeoutOpt, cfgPollTimeoutMs))

(***************************************************************************)
(* The state.                                                              *)
(***************************************************************************)
VARIABLES
  cfg,          \* the client's config (immutable after createClient)
  op,           \* the public operation that was called, "" before the call
  args,         \* its arguments
  pc,           \* where the call stands
  now,          \* Date.now()
  log,          \* every uploadFiles call, HTTP request and wait, in order
  posts,        \* the payloads of the post requests sent
  i,            \* retryAsync: i
  attemptErrs,  \* the errors of the failed upload attempts, in order
  uploads,      \* submitPostWithFiles: uploads
  idx,          \* submitPostWithFiles: position of the for loop in uploads
  start,        \* submitPostWithFiles: start
  calledAt,     \* the time the public operation was called
  uploadedAt,   \* the time the upload step of submitPostWithFiles succeeded
  lastResp,     \* the HTTP response the latest step got, NoResp if it got none
  finalSrcs,    \* submitPostWithFiles: finalSrcs
  poll,         \* the running pollUntilProcessed: uploadId, interval, timeoutMs, start
  seen,         \* the status objects the running poll got, in order
  pollLogAt,    \* Len(log) when the running poll began
  observed,     \* per finished poll of submitPostWithFiles: the id and what it returned
  payload,      \* submitPost: payload
  outcome,      \* "none", "returned" or "threw"
  err,          \* the error the call threw
  ret,          \* the value the call returned
  uploadIds,    \* pollManyUntilProcessed: uploadIds
  tasks,        \* pollManyUntilProcessed: tasks, one poll loop per upload id
  settled,      \* the positions of the poll loops that settled, in the order they did
  race          \* fetchWithTimeout: the timer, the signal and the transport

vars == <<cfg, op, args, pc, now, log, posts, i, attemptErrs, uploads, idx, start, calledAt,
          uploadedAt, lastResp, finalSrcs, poll, seen, pollLogAt, observed, payload, outcome, err, ret,
          uploadIds, tasks, settled, race>>

Ev(ev, id, ms) == [ev |-> ev, id |-> id, ms |-> ms]
NoPoll == [uploadId |-> "", interval |-> 0, timeoutMs |-> 0, start |-> 0]
NoPayload == [medias |-> <<>>, replyPermission |-> JsUndefined, quotePostID |-> JsUndefined]
NoRet == [uploads |-> <<>>, body |-> AbsentBody]
NoUploadIds == [isArray |-> TRUE, items |-> <<>>]
NoRace ==
  [timer |-> "none", deadline |-> 0, aborted |-> FALSE, transport |-> "none", settledAt |-> 0]
NoArgs ==
  [files |-> [isArray |-> TRUE, items |-> <<>>], replyPermission |-> JsUndefined,
   quotePostID |-> JsNull, medias |-> <<>>, pollIntervalOpt |-> NoOpt,
   pollTimeoutOpt |-> NoOpt, timeoutMs |-> 0, uploadId |-> ""]

(***************************************************************************)
(* Inputs.                                                                 *)
(***************************************************************************)
PathItem == FileItem(TRUE, FALSE, FALSE)
BufferItem == FileItem(FALSE, TRUE, FALSE)
HandleItem == FileItem(FALSE, FALSE, TRUE)
BadItem == FileItem(FALSE, FALSE, FALSE)
FilesInputs ==
  {[isArray |-> FALSE, items |-> <<>>]}
  \cup {[isArray |-> TRUE, items |-> f] :
          f \in {<<>>, <<BufferItem, PathItem, HandleItem>>, <<BadItem>>,
                 <<PathItem, BadItem>>}}

ReplyPermissionInputs ==
  {JsUndefined, JsNull, JsBool(FALSE), JsBool(TRUE), JsStr(<<>>), JsStr(<<" ">>),
   JsStr(<<"p", "u", "b", "l", "i", "c">>), JsStr(<<"P", "r", "i", "v", "a", "t", "e">>),
   JsStr(<<"o", "t", "h", "e", "r">>)}

QuotePostIDInputs ==
  {JsNull,
   JsStr(<<" ", "A">> \o Rep("1", 22) \o <<"z", " ">>),
   JsStr(<<"1">> \o Rep("a", 23)),
   JsStr(Rep("a", 10)),
   JsStr(Rep("a", 33))}

MediasInputs == {<<>>, <<"S1">>}
PollTimeoutInputs == {NoOpt, Opt(500)}
\* submitPostWithFiles: (replyPermission, quotePostID), one of them at a time other
\* than the default; (pollOptions.timeoutMs, timeoutMs), a short overall deadline
\* with the configured poll timeout or the default one with a short poll timeout.
PostArgInputs ==
  {<<rp, JsNull>> : rp \in ReplyPermissionInputs}
  \cup {<<JsUndefined, q>> : q \in QuotePostIDInputs}
DeadlineInputs == {<<NoOpt, 1000>>, <<Opt(500), 120000>>}
PollTimeoutsCfg == {1500}

(***************************************************************************)
(* Init: a client was created; nothing was called yet.                     *)
(***************************************************************************)
Init ==
  /\ cfg \in [maxRetries : 0..MaxRetriesCfg, pollIntervalMs : {DefaultPollIntervalMs},
              pollTimeoutMs : PollTimeoutsCfg]
  /\ op = ""
  /\ args = NoArgs
  /\ pc = "idle"
  /\ now = 0
  /\ log = <<>>
  /\ posts = <<>>
  /\ i = 0
  /\ attemptErrs = <<>>
  /\ uploads = <<>>
  /\ idx = 0
  /\ start = 0
  /\ calledAt = 0
  /\ uploadedAt = 0
  /\ lastResp = NoResp
  /\ finalSrcs = <<>>
  /\ poll = NoPoll
  /\ seen = <<>>
  /\ pollLogAt = 0
  /\ observed = <<>>
  /\ payload = NoPayload
  /\ outcome = "none"
  /\ err = NoErr
  /\ ret = NoRet
  /\ uploadIds = NoUploadIds
  /\ tasks = <<>>
  /\ settled = <<>>
  /\ race = NoRace

(***************************************************************************)
(* How a call ends, and how submitPost begins.                             *)
(***************************************************************************)
Throw(e) == pc' = "done" /\ outcome' = "threw" /\ err' = e /\ ret' = ret
Return(v) == pc' = "done" /\ outcome' = "returned" /\ ret' = v /\ err' = err
Goto(l) == pc' = l /\ UNCHANGED <<outcome, err, ret>>

\* submitPost up to its request: validation, then the payload is built.
submitPostBegin(medias, replyPermission, quotePostID) ==
  LET h == submitPostPayload(medias, replyPermission, quotePostID)
  IN IF h.throws THEN Throw(PlainErr(h.message)) /\ payload' = payload
     ELSE Goto("post") /\ payload' = h.payload

(***************************************************************************)
(* The public operations.                                                  *)
(***************************************************************************)
Called(name, a) ==
  /\ pc = "idle"
  /\ op' = name
  /\ args' = a
  /\ calledAt' = now

\* client.uploadFiles(files)
Call_uploadFiles ==
  \E f \in FilesInputs :
    /\ Called("uploadFiles", [NoArgs EXCEPT !.files = f])
    /\ Goto("attempt")
    /\ UNCHANGED <<uploadedAt, lastResp, cfg, now, log, posts, i, attemptErrs, uploads, idx, start, finalSrcs, poll,
                   seen, pollLogAt, observed, payload>>
    /\ UNCHANGED <<uploadIds, tasks, settled, race>>

\* client.getUploadStatus(uploadId)
Call_getUploadStatus ==
  /\ Called("getUploadStatus", [NoArgs EXCEPT !.uploadId = UploadIds[1]])
  /\ Goto("query")
  /\ poll' = [NoPoll EXCEPT !.uploadId = UploadIds[1]]
  /\ UNCHANGED <<uploadedAt, lastResp, cfg, now, log, posts, i, attemptErrs, uploads, idx, start, finalSrcs, seen,
                 pollLogAt, observed, payload>>
  /\ UNCHANGED <<uploadIds, tasks, settled, race>>

\* client.pollUntilProcessed(uploadId, options)
Call_pollUntilProcessed ==
  \E t \in PollTimeoutInputs :
    /\ Called("pollUntilProcessed",
              [NoArgs EXCEPT !.uploadId = UploadIds[1], !.pollTimeoutOpt = t])
    /\ Goto("query")
    /\ poll' = [uploadId |-> UploadIds[1],
                interval |-> Coalesce(NoOpt, cfg.pollIntervalMs),
                timeoutMs |-> Coalesce(t, cfg.pollTimeoutMs),
                start |-> now]
    /\ seen' = <<>>
    /\ pollLogAt' = Len(log)
    /\ UNCHANGED <<uploadedAt, lastResp, cfg, now, log, posts, i, attemptErrs, uploads, idx, start, finalSrcs,
                   observed, payload>>
    /\ UNCHANGED <<uploadIds, tasks, settled, race>>

\* client.submitPost({ medias, replyPermission, quotePostID })
Call_submitPost ==
  \E m \in MediasInputs, rp \in ReplyPermissionInputs, q \in QuotePostIDInputs :
    /\ Called("submitPost",
              [NoArgs EXCEPT !.medias = m, !.replyPermission = rp, !.quotePostID = q])
    /\ submitPostBegin(m, rp, q)
    /\ UNCHANGED <<uploadedAt, lastResp, cfg, now, log, posts, i, attemptErrs, uploads, idx, start, finalSrcs, poll,
                   seen, pollLogAt, observed>>
    /\ UNCHANGED <<uploadIds, tasks, settled, race>>

\* client.submitPostWithFiles({ files, replyPermission, quotePostID, pollOptions,
\* timeoutMs }) up to the first call of uploadFiles.
Call_submitPostWithFiles ==
  \E f \in FilesInputs, pa \in PostArgInputs, td \in DeadlineInputs :
   LET rp == pa[1]
       q == pa[2]
   IN
    /\ Called("submitPostWithFiles",
              [NoArgs EXCEPT !.files = f, !.replyPermission = rp, !.quotePostID = q,
                             !.pollTimeoutOpt = td[1], !.timeoutMs = td[2]])
    /\ IF ~f.isArray \/ Len(f.items) = 0 THEN submitPostBegin(<<>>, rp, q)
       ELSE IF validateReplyPermission(rp).throws
         THEN Throw(PlainErr(validateReplyPermission(rp).message)) /\ payload' = payload
       ELSE IF validateQuotePostID(q).throws
         THEN Throw(PlainErr(validateQuotePostID(q).message)) /\ payload' = payload
       ELSE Goto("attempt") /\ payload' = payload
    /\ UNCHANGED <<uploadedAt, lastResp, cfg, now, log, posts, i, attemptErrs, uploads, idx, start, finalSrcs, poll,
                   seen, pollLogAt, observed>>
    /\ UNCHANGED <<uploadIds, tasks, settled, race>>

(***************************************************************************)
(* The steps of a running call.                                            *)
(***************************************************************************)
\* One call of uploadFiles: directly, or as the fn of retryAsync.
UploadAttempt ==
  /\ pc = "attempt"
  /\ \E o \in uploadFiles(args.files) :
       /\ now' = now + o.dt
       /\ log' = log \o <<Ev("uploadFiles", "", 0)>>
                     \o (IF o.http THEN <<Ev("POST uploads", "", 0)>> ELSE <<>>)
       /\ lastResp' = o.resp
       /\ IF ~retried(op) THEN
            /\ IF o.ok THEN Return([NoRet EXCEPT !.uploads = o.value]) ELSE Throw(o.err)
            /\ UNCHANGED <<i, attemptErrs, uploads, idx, start, uploadedAt>>
          ELSE IF o.ok THEN
            /\ uploads' = o.value
            /\ uploadedAt' = now'
            /\ start' = deadlineStart(calledAt, now')
            /\ idx' = 1
            /\ Goto("loop")
            /\ attemptErrs' = <<>>
            /\ UNCHANGED i
          ELSE IF ~retryAsyncCatches(o.err) THEN
            /\ Throw(WrapUploadError(o.err))
            /\ UNCHANGED <<i, attemptErrs, uploads, idx, start, uploadedAt>>
          ELSE
            /\ i' = i + 1
            /\ attemptErrs' = Append(attemptErrs, o.err)
            /\ IF retryAsyncGivesUp(i', cfg.maxRetries)
               THEN Throw(WrapUploadError(retryAsyncThrown(attemptErrs')))
               ELSE Goto("backoff")
            /\ UNCHANGED <<uploads, idx, start, uploadedAt>>
  /\ UNCHANGED <<cfg, op, args, posts, calledAt, finalSrcs, poll, seen, pollLogAt, observed,
                 payload>>
  /\ UNCHANGED <<uploadIds, tasks, settled, race>>

\* retryAsync: await wait(backoffMs * i)
Backoff ==
  /\ pc = "backoff"
  /\ now' = now + retryAsyncDelay(i, UploadBackoffMs)
  /\ log' = Append(log, Ev("wait", "", retryAsyncDelay(i, UploadBackoffMs)))
  /\ Goto("attempt")
  /\ UNCHANGED <<uploadedAt, lastResp, cfg, op, args, posts, i, attemptErrs, uploads, idx, start, calledAt,
                 finalSrcs, poll, seen, pollLogAt, observed, payload>>
  /\ UNCHANGED <<uploadIds, tasks, settled, race>>

\* submitPostWithFiles: the head of the for loop, or what follows the loop.
LoopNext ==
  /\ pc = "loop"
  /\ IF idx > Len(uploads) THEN
       /\ submitPostBegin(finalSrcs, args.replyPermission, args.quotePostID)
       /\ UNCHANGED <<poll, seen, pollLogAt>>
     ELSE IF deadlineExhausted(remainingTime(args.timeoutMs, now, start)) THEN
       /\ Throw(PlainErr(<<"Timeout while waiting for files to be processed">>))
       /\ UNCHANGED <<poll, seen, pollLogAt, payload>>
     ELSE
       /\ poll' = [uploadId |-> uploads[idx],
                   interval |-> Coalesce(args.pollIntervalOpt, cfg.pollIntervalMs),
                   timeoutMs |-> pollTimeoutFor(remainingTime(args.timeoutMs, now, start),
                                                args.pollTimeoutOpt, cfg.pollTimeoutMs),
                   start |-> now]
       /\ seen' = <<>>
       /\ pollLogAt' = Len(log)
       /\ Goto("query")
       /\ UNCHANGED payload
  /\ UNCHANGED <<uploadedAt, lastResp, cfg, op, args, now, log, posts, i, attemptErrs, uploads, idx, start,
                 calledAt, finalSrcs, observed>>
  /\ UNCHANGED <<uploadIds, tasks, settled, race>>

\* One getUploadStatus: alone, or as a turn of the loop of pollUntilProcessed,
\* followed in submitPostWithFiles by the checks on the status the poll returned.
Query ==
  /\ pc = "query"
  /\ \E o \in getUploadStatus(poll.uploadId) :
       /\ now' = now + o.dt
       /\ log' = Append(log, Ev("GET status", poll.uploadId, 0))
       /\ lastResp' = o.resp
       /\ IF ~o.ok THEN
            /\ Throw(o.err)
            /\ UNCHANGED <<seen, finalSrcs, idx, observed>>
          ELSE IF op = "getUploadStatus" THEN
            /\ Return([NoRet EXCEPT !.body = o.value])
            /\ UNCHANGED <<seen, finalSrcs, idx, observed>>
          ELSE
            /\ seen' = Append(seen, o.value)
            /\ LET step == pollUntilProcessedStep(o.value, now' - poll.start, poll.timeoutMs)
               IN IF step = "wait" THEN
                    Goto("pollwait") /\ UNCHANGED <<finalSrcs, idx, observed>>
                  ELSE IF step = "timeout" THEN
                    /\ Throw(pollTimeoutError(o.value))
                    /\ UNCHANGED <<finalSrcs, idx, observed>>
                  ELSE IF op = "pollUntilProcessed" THEN
                    /\ Return([NoRet EXCEPT !.body = o.value])
                    /\ UNCHANGED <<finalSrcs, idx, observed>>
                  ELSE
                    /\ observed' = Append(observed, [id |-> poll.uploadId, s |-> o.value])
                    /\ IF uploadVerdict(o.value) = "terminal" THEN
                         /\ Throw(Err(<<"Upload ", poll.uploadId, " terminal state: ",
                                        o.value.status>>, 0, AbsentBody, "", o.value))
                         /\ UNCHANGED <<finalSrcs, idx>>
                       ELSE IF uploadVerdict(o.value) = "nosrc" THEN
                         /\ Throw(Err(<<"Upload ", poll.uploadId,
                                        " processed but no src returned">>, 0, AbsentBody,
                                      "", o.value))
                         /\ UNCHANGED <<finalSrcs, idx>>
                       ELSE
                         /\ finalSrcs' = collectSrc(finalSrcs, o.value.src)
                         /\ idx' = idx + 1
                         /\ Goto("loop")
  /\ UNCHANGED <<uploadedAt, cfg, op, args, posts, i, attemptErrs, uploads, start, calledAt, poll,
                 pollLogAt, payload>>
  /\ UNCHANGED <<uploadIds, tasks, settled, race>>

\* pollUntilProcessed: await wait(interval)
PollWait ==
  /\ pc = "pollwait"
  /\ now' = now + poll.interval
  /\ log' = Append(log, Ev("wait", poll.uploadId, poll.interval))
  /\ Goto("query")
  /\ UNCHANGED <<uploadedAt, lastResp, cfg, op, args, posts, i, attemptErrs, uploads, idx, start, calledAt,
                 finalSrcs, poll, seen, pollLogAt, observed, payload>>
  /\ UNCHANGED <<uploadIds, tasks, settled, race>>

\* submitPost: the request and what follows it.
Post ==
  /\ pc = "post"
  /\ \E x \in fetchWithTimeout(PostResponses, PostFetchTimeoutMs) :
       LET o == submitPostHttp(x)
       IN /\ now' = now + o.dt
          /\ lastResp' = o.resp
          /\ log' = Append(log, Ev("POST posts", "", 0))
          /\ posts' = Append(posts, payload)
          /\ IF o.ok THEN Return([NoRet EXCEPT !.body = o.value]) ELSE Throw(o.err)
  /\ UNCHANGED <<uploadedAt, cfg, op, args, i, attemptErrs, uploads, idx, start, calledAt, finalSrcs,
                 poll, seen, pollLogAt, observed, payload>>
  /\ UNCHANGED <<uploadIds, tasks, settled, race>>

Next ==
  \/ Call_uploadFiles
  \/ Call_getUploadStatus
  \/ Call_pollUntilProcessed
  \/ Call_submitPost
  \/ Call_submitPostWithFiles
  \/ UploadAttempt
  \/ Backoff
  \/ LoopNext
  \/ Query
  \/ PollWait
  \/ Post

Spec == Init /\ [][Next]_vars

(***************************************************************************)
(* pollManyUntilProcessed: one poll loop per upload id, all started by the *)
(* call and running at once, joined by Promise.all.  A loop that settles   *)
(* settles the join in the same turn; the other loops run on whatever the  *)
(* join did.                                                               *)
(***************************************************************************)
Max(a, b) == IF a > b THEN a ELSE b

\* uploadIds: no array, the empty list, one id, two distinct ids in either order.
UploadIdsInputs ==
  {[isArray |-> FALSE, items |-> <<>>]}
  \cup {[isArray |-> TRUE, items |-> u] :
          u \in {<<>>, <<UploadIds[1]>>, <<UploadIds[1], UploadIds[2]>>,
                 <<UploadIds[2], UploadIds[1]>>}}

\* pollUntilProcessed(id, options) up to its first request: st is "query" (a
\* request is out), "wait" (the interval timer runs), "resolved" or "rejected";
\* at is the time the request or the timer was started.
NewTask(id, t) ==
  [id |-> id, st |-> "query", start |-> t, at |-> t, s |-> AbsentBody, err |-> NoErr]

\* joinAll waiting for every loop and fulfilling with those that resolved.
joinAll_Settled(ts) ==
  IF \E k \in DOMAIN ts : ts[k].st \in {"query", "wait"} THEN "pending" ELSE "fulfilled"

\* Promise.all(tasks)
joinAll(ts) ==
  IF \E k \in DOMAIN ts : ts[k].st = "rejected" THEN "rejected"
  ELSE IF \A k \in DOMAIN ts : ts[k].st = "resolved" THEN "fulfilled"
  ELSE "pending"

\* pollManyMap giving the n-th id the status of the n-th loop to settle.
pollManyMap_ByCompletion(ts, order) ==
  [id \in {ts[k].id : k \in DOMAIN ts} |->
     ts[order[CHOOSE k \in DOMAIN ts : ts[k].id = id]].s]

\* for (const r of results) map[r.id] = r.s, results in the order of uploadIds
pollManyMap(ts, order) ==
  [id \in {ts[k].id : k \in DOMAIN ts} |->
     ts[CHOOSE k \in DOMAIN ts :
          ts[k].id = id /\ \A j \in DOMAIN ts : j > k => ts[j].id # id].s]

\* The error Promise.all rejects with: that of the first loop to reject.
FirstRejection(ts, order) ==
  ts[order[CHOOSE n \in DOMAIN order :
             /\ ts[order[n]].st = "rejected"
             /\ \A j \in 1..(n - 1) : ts[order[j]].st # "rejected"]].err

\* What the awaiting pollManyUntilProcessed does once a loop settled.
Join(ts, order) ==
  IF pc # "join" \/ joinAll(ts) = "pending" THEN UNCHANGED <<pc, outcome, err, ret>>
  ELSE IF joinAll(ts) = "rejected" THEN Throw(FirstRejection(ts, order))
  ELSE Return([NoRet EXCEPT !.body = pollManyMap(ts, order)])

\* client.pollManyUntilProcessed(uploadIds, options)
Call_pollManyUntilProcessed ==
  \E u \in UploadIdsInputs, t \in PollTimeoutInputs :
    /\ Called("pollManyUntilProcessed", [NoArgs EXCEPT !.pollTimeoutOpt = t])
    /\ uploadIds' = u
    /\ IF ~u.isArray \/ Len(u.items) = 0
       THEN Return([NoRet EXCEPT !.body = <<>>]) /\ tasks' = <<>>
       ELSE Goto("join") /\ tasks' = [k \in DOMAIN u.items |-> NewTask(u.items[k], now)]
    /\ UNCHANGED <<cfg, now, log, posts, i, attemptErrs, uploads, idx, start, uploadedAt,
                   lastResp, finalSrcs, poll, seen, pollLogAt, observed, payload, settled,
                   race>>

\* The request of one loop comes back: a turn of the loop of pollUntilProcessed.
PollTaskQuery ==
  \E k \in DOMAIN tasks :
    /\ tasks[k].st = "query"
    /\ \E o \in getUploadStatus(tasks[k].id) :
         LET t == Max(now, tasks[k].at + o.dt)
             step == IF o.ok
                     THEN pollUntilProcessedStep(o.value, t - tasks[k].start,
                                                 Coalesce(args.pollTimeoutOpt,
                                                          cfg.pollTimeoutMs))
                     ELSE "throw"
             task == IF step = "throw" THEN [tasks[k] EXCEPT !.st = "rejected", !.err = o.err]
                     ELSE IF step = "timeout"
                       THEN [tasks[k] EXCEPT !.st = "rejected", !.s = o.value,
                                             !.err = pollTimeoutError(o.value)]
                     ELSE IF step = "return"
                       THEN [tasks[k] EXCEPT !.st = "resolved", !.s = o.value]
                     ELSE [tasks[k] EXCEPT !.st = "wait", !.s = o.value, !.at = t]
         IN /\ now' = t
            /\ tasks' = [tasks EXCEPT ![k] = task]
            /\ settled' = IF step = "wait" THEN settled ELSE Append(settled, k)
            /\ Join(tasks', settled')
    /\ UNCHANGED <<cfg, op, args, log, posts, i, attemptErrs, uploads, idx, start, calledAt,
                   uploadedAt, lastResp, finalSrcs, poll, seen, pollLogAt, observed, payload,
                   uploadIds, race>>

\* The interval timer of one loop fires: await wait(interval), then the next request.
PollTaskWait ==
  \E k \in DOMAIN tasks :
    /\ tasks[k].st = "wait"
    /\ now' = Max(now, tasks[k].at + Coalesce(args.pollIntervalOpt, cfg.pollIntervalMs))
    /\ tasks' = [tasks EXCEPT ![k] = [@ EXCEPT !.st = "query", !.at = now']]
    /\ UNCHANGED <<cfg, op, args, pc, log, posts, i, attemptErrs, uploads, idx, start,
                   calledAt, uploadedAt, lastResp, finalSrcs, poll, seen, pollLogAt, observed,
                   payload, outcome, err, ret, uploadIds, settled, race>>

InitMany == Init /\ cfg.maxRetries = 0

NextMany ==
  \/ Call_pollManyUntilProcessed
  \/ PollTaskQuery
  \/ PollTaskWait

SpecMany == InitMany /\ [][NextMany]_vars

(***************************************************************************)
(* fetchWithTimeout as the race it is: the abort timer against the         *)
(* transport.  The timer is "armed" from setTimeout until it fires or is   *)
(* cleared; a timer that is due runs before any later event, so the clock  *)
(* does not pass the deadline of an armed timer.                           *)
(***************************************************************************)
TickMs == 5000
MaxClockMs == 65000

\* The timeouts _doFetch is called with.
FetchTimeouts == {StatusFetchTimeoutMs, PostFetchTimeoutMs, UploadFetchTimeoutMs}
\* What the transport can answer; fetchWithTimeout returns any response as it is.
RaceResponses == StatusResponses(UploadIds[1])

\* clearTimeout left out.
clearTimeout_Forgotten(timer) == timer

\* clearTimeout(id): an armed timer will not fire; a timer that fired stays so.
clearTimeout(timer) == IF timer = "armed" THEN "cleared" ELSE timer

\* e = new Error(`Request timed out after ${timeoutMs}ms`); e.code = 'ETIMEDOUT'
TimedOutError ==
  Err(<<"Request timed out after", "ms">>, 0, AbsentBody, "ETIMEDOUT", AbsentBody)

\* fetchWithTimeout(url, options, timeoutMs) up to await fetch(...)
Call_fetchWithTimeout ==
  \E t \in FetchTimeouts :
    /\ Called("fetchWithTimeout", [NoArgs EXCEPT !.timeoutMs = t])
    /\ race' = [timer |-> "armed", deadline |-> now + t, aborted |-> FALSE,
                transport |-> "pending", settledAt |-> 0]
    /\ Goto("fetch")
    /\ UNCHANGED <<cfg, now, log, posts, i, attemptErrs, uploads, idx, start, uploadedAt,
                   lastResp, finalSrcs, poll, seen, pollLogAt, observed, payload, uploadIds,
                   tasks, settled>>

\* The response arrives: clearTimeout(id); return resp
TransportResponds ==
  /\ pc = "fetch"
  /\ race.transport = "pending"
  /\ now < race.deadline
  /\ \E r \in RaceResponses :
       /\ lastResp' = r
       /\ Return([NoRet EXCEPT !.body = r.body])
  /\ race' = [race EXCEPT !.transport = "responded", !.timer = clearTimeout(@),
                          !.settledAt = now]
  /\ UNCHANGED <<cfg, op, args, now, log, posts, i, attemptErrs, uploads, idx, start,
                 calledAt, uploadedAt, finalSrcs, poll, seen, pollLogAt, observed, payload,
                 uploadIds, tasks, settled>>

\* fetch rejects by itself: clearTimeout(id); the name is not AbortError; throw err
TransportFails ==
  /\ pc = "fetch"
  /\ race.transport = "pending"
  /\ now < race.deadline
  /\ Throw(PlainErr(<<"fetch failed">>))
  /\ race' = [race EXCEPT !.transport = "failed", !.timer = clearTimeout(@),
                          !.settledAt = now]
  /\ UNCHANGED <<cfg, op, args, now, log, posts, i, attemptErrs, uploads, idx, start,
                 calledAt, uploadedAt, lastResp, finalSrcs, poll, seen, pollLogAt, observed,
                 payload, uploadIds, tasks, settled>>

\* The timer fires: controller.abort(); a pending fetch rejects with AbortError,
\* which the catch turns into the timeout error after clearTimeout(id).
TimerFires ==
  /\ race.timer = "armed"
  /\ now >= race.deadline
  /\ IF pc = "fetch"
     THEN /\ Throw(TimedOutError)
          /\ race' = [race EXCEPT !.timer = clearTimeout("fired"), !.aborted = TRUE,
                                  !.transport = "aborted", !.settledAt = now]
     ELSE /\ UNCHANGED <<pc, outcome, err, ret>>
          /\ race' = [race EXCEPT !.timer = "fired", !.aborted = TRUE]
  /\ UNCHANGED <<cfg, op, args, now, log, posts, i, attemptErrs, uploads, idx, start,
                 calledAt, uploadedAt, lastResp, finalSrcs, poll, seen, pollLogAt, observed,
                 payload, uploadIds, tasks, settled>>

\* Time passes, up to the deadline of an armed timer.
Tick ==
  /\ now < MaxClockMs
  /\ ~(race.timer = "armed" /\ now >= race.deadline)
  /\ now' = IF race.timer = "armed" THEN Min(now + TickMs, race.deadline) ELSE now + TickMs
  /\ UNCHANGED <<cfg, op, args, pc, log, posts, i, attemptErrs, uploads, idx, start,
                 calledAt, uploadedAt, lastResp, finalSrcs, poll, seen, pollLogAt, observed,
                 payload, outcome, err, ret, uploadIds, tasks, settled, race>>

NextRace ==
  \/ Call_fetchWithTimeout
  \/ TransportResponds
  \/ TransportFails
  \/ TimerFires
  \/ Tick

InitRace == Init /\ cfg.maxRetries = 0

SpecRace == InitRace /\ [][NextRace]_vars

(***************************************************************************)
(* pollUntilProcessed alone, for its termination.  Every status query      *)
(* settles and every interval wait elapses: weak fairness of the two       *)
(* steps.  The number of queries of the run explored is capped.            *)
(***************************************************************************)
MaxPollQueries == 4

PollQuery == Len(seen) < MaxPollQueries /\ Query

NextPoll ==
  \/ Call_pollUntilProcessed
  \/ PollQuery
  \/ PollWait

SpecPoll == Init /\ [][NextPoll]_vars /\ WF_vars(PollQuery) /\ WF_vars(PollWait)

(***************************************************************************)
(* Vocabulary of the properties.                                           *)
(***************************************************************************)
IsHttp(e) == e.ev \in {"POST uploads", "GET status", "POST posts"}
IsUploadCall(e) == e.ev = "uploadFiles"
IsUploadHttp(e) == e.ev = "POST uploads"
IsStatusQuery(e) == e.ev = "GET status"
IsPostRequest(e) == e.ev = "POST posts"
IsBackoffWait(e) == e.ev = "wait" /\ e.id = ""
IsPollEvent(e) == e.ev = "GET status" \/ (e.ev = "wait" /\ e.id # "")
IsRetryEvent(e) == IsUploadCall(e) \/ IsBackoffWait(e)

HttpRequests == SelectSeq(log, IsHttp)
UploadCalls == Len(SelectSeq(log, IsUploadCall))
UploadRequests == Len(SelectSeq(log, IsUploadHttp))
StatusQueries == Len(SelectSeq(log, IsStatusQuery))
PostRequests == Len(SelectSeq(log, IsPostRequest))
BackoffWaits == SelectSeq(log, IsBackoffWait)
\* The calls of uploadFiles and the backoff waits, in order.
RetryLog == SelectSeq(log, IsRetryEvent)
\* The status queries and interval waits of the latest poll, in order.
PollLog == SelectSeq(SubSeq(log, pollLogAt + 1, Len(log)), IsPollEvent)

IsTerminal(statusObj) == statusObj.status \in {"PROCESSED", "DELETED", "ATTACHED"}
Finished == pc = "done"
Threw == pc = "done" /\ outcome = "threw"
Returned == pc = "done" /\ outcome = "returned"
\* submitPostWithFiles was called with a non-empty file list.
WithFiles ==
  op = "submitPostWithFiles" /\ args.files.isArray /\ Len(args.files.items) > 0
Polling == op \in {"pollUntilProcessed", "submitPostWithFiles"}

\* n queries with one interval wait between each two of them.
QueriesAndWaits(id, interval, n) ==
  [k \in 1..(2 * n - 1) |->
     IF k % 2 = 1 THEN Ev("GET status", id, 0) ELSE Ev("wait", id, interval)]
\* k failed calls of uploadFiles, each followed by its wait, then one more call.
CallsAndBackoffs(k, base) ==
  [n \in 1..(2 * k + 1) |->
     IF n % 2 = 1 THEN Ev("uploadFiles", "", 0) ELSE Ev("wait", "", (n \div 2) * base)]

(***************************************************************************)
(* C1.  A post request of submitPostWithFiles (non-empty file list) is     *)
(* sent only when every upload id the upload step returned was seen by its *)
(* poll as PROCESSED with a non-empty src, in order; once a poll returned  *)
(* DELETED, ATTACHED or PROCESSED without src, the call has failed and no  *)
(* post request was or will be sent.                                       *)
(***************************************************************************)
C1_PostOnlyAfterAllProcessed ==
  WithFiles =>
    /\ (pc = "post" \/ PostRequests > 0) =>
         /\ Len(observed) = Len(uploads)
         /\ \A k \in DOMAIN uploads :
              /\ observed[k].id = uploads[k]
              /\ observed[k].s.status = "PROCESSED"
              /\ observed[k].s.src # ""
    /\ (\E k \in DOMAIN observed :
          observed[k].s.status # "PROCESSED" \/ observed[k].s.src = "") =>
         Threw /\ PostRequests = 0 /\ posts = <<>>

C1_Witness ==
  /\ WithFiles
  /\ Returned
  /\ PostRequests = 1
  /\ Len(uploads) = 2
  /\ Len(observed) = 2

(***************************************************************************)
(* C2.  As claimed: the timeout handed to each poll of                     *)
(* submitPostWithFiles is min(pollOptions.timeoutMs or the configured      *)
(* default, timeoutMs minus the time elapsed since submitPostWithFiles was *)
(* called), so that the time of the upload step and its backoff waits      *)
(* shortens the budget.                                                    *)
(***************************************************************************)
PollRunning == WithFiles /\ pc \in {"query", "pollwait"}
PerCallTimeout == Coalesce(args.pollTimeoutOpt, cfg.pollTimeoutMs)

C2_BudgetFromCall ==
  PollRunning =>
    poll.timeoutMs = Min(PerCallTimeout, args.timeoutMs - (poll.start - calledAt))

(***************************************************************************)
(* C2, amended.  The budget is measured from the moment the upload step    *)
(* succeeded: the timeout handed to each poll is min(pollOptions.timeoutMs *)
(* or the configured default, timeoutMs minus the time elapsed since the   *)
(* upload step returned); the time of the upload step and of its backoff   *)
(* waits does not shorten it.                                              *)
(***************************************************************************)
C2_BudgetFromUploadDone ==
  PollRunning =>
    poll.timeoutMs = Min(PerCallTimeout, args.timeoutMs - (poll.start - uploadedAt))

\* A second poll whose timeout is what is left of the budget, after an upload
\* step that took time.
C2_Witness ==
  /\ PollRunning
  /\ idx = 2
  /\ uploadedAt > calledAt
  /\ poll.start > uploadedAt
  /\ poll.timeoutMs = args.timeoutMs - (poll.start - uploadedAt)
  /\ poll.timeoutMs < PerCallTimeout

(***************************************************************************)
(* C3.  As claimed: once a status query of pollUntilProcessed answered     *)
(* not-found, no further status query and no further interval wait is made *)
(* for that id.                                                            *)
(***************************************************************************)
C3_NotFoundStopsPoll ==
  Polling =>
    \A k \in DOMAIN seen :
      seen[k].missing => (k = Len(seen) /\ pc \notin {"pollwait", "query"})

(***************************************************************************)
(* C3, amended.  A not-found answer is not a terminal signal: unless the   *)
(* timeout has elapsed at that query, pollUntilProcessed waits one         *)
(* interval and queries again, as it does for any non-terminal status; if  *)
(* the timeout has elapsed it fails with the poll-timeout error carrying   *)
(* the not-found result.  A poll never returns the not-found result.       *)
(***************************************************************************)
C3_NotFoundKeepsPolling ==
  Polling =>
    /\ (seen # <<>> /\ seen[Len(seen)].missing /\ Len(PollLog) = 2 * Len(seen) - 1) =>
         \/ pc = "pollwait" /\ now - poll.start <= poll.timeoutMs
         \/ /\ Threw
            /\ err = pollTimeoutError(MissingStatus)
            /\ now - poll.start > poll.timeoutMs
    /\ (op = "pollUntilProcessed" /\ Returned) => ~ret.body.missing
    /\ \A k \in DOMAIN observed : ~observed[k].s.missing

C3_Witness ==
  /\ op = "pollUntilProcessed"
  /\ Len(seen) = 3
  /\ seen[1].missing
  /\ seen[2].missing
  /\ Len(PollLog) = 5
  /\ Returned

(***************************************************************************)
(* C4.  In a poll, no query follows a terminal status (PROCESSED, DELETED, *)
(* ATTACHED); when the first k statuses were non-terminal and status k+1   *)
(* is terminal, the poll returns exactly that status object, after exactly *)
(* k+1 queries and k interval waits, one wait between each two queries     *)
(* (also when the timeout elapsed during query k+1).                       *)
(***************************************************************************)
C4_ReturnsFirstTerminal ==
  Polling =>
    /\ \A k \in 1..(Len(seen) - 1) : ~IsTerminal(seen[k])
    /\ (seen # <<>> /\ IsTerminal(seen[Len(seen)])) =>
         /\ pc \notin {"query", "pollwait"}
         /\ PollLog = QueriesAndWaits(poll.uploadId, poll.interval, Len(seen))
         /\ op = "pollUntilProcessed" => (Returned /\ ret.body = seen[Len(seen)])
         /\ op = "submitPostWithFiles" =>
              (observed # <<>> /\ observed[Len(observed)].s = seen[Len(seen)])

\* PENDING, not-found, then DELETED: returned after 3 queries and 2 waits, the
\* timeout of 500 ms long elapsed.
C4_Witness ==
  /\ op = "pollUntilProcessed"
  /\ Returned
  /\ Len(seen) = 3
  /\ ret.body.status = "DELETED"
  /\ Len(PollLog) = 5
  /\ now - poll.start > poll.timeoutMs

(***************************************************************************)
(* C5.  A poll fails with the poll-timeout error exactly when a query      *)
(* returned a non-terminal status with the timeout elapsed; the error then *)
(* carries the status object of the most recent query.  A poll never waits *)
(* with its timeout elapsed.  With a timeout shorter than the interval and *)
(* a source that stays PENDING, the second query ends the poll with the    *)
(* PENDING status attached.                                                *)
(***************************************************************************)
IsPollTimeout(e) == e.message = <<"polling timeout waiting for processed">>

C5_TimeoutCarriesLastStatus ==
  Polling =>
    /\ (Threw /\ IsPollTimeout(err)) =>
         /\ seen # <<>>
         /\ err.statusObj = seen[Len(seen)]
         /\ ~IsTerminal(seen[Len(seen)])
         /\ now - poll.start > poll.timeoutMs
         /\ Len(PollLog) = 2 * Len(seen) - 1
    /\ pc = "pollwait" => now - poll.start <= poll.timeoutMs
    /\ (/\ poll.timeoutMs < poll.interval
        /\ Len(seen) = 2
        /\ Len(PollLog) = 3
        /\ \A k \in DOMAIN seen : seen[k].status = "PENDING") =>
         (Threw /\ IsPollTimeout(err) /\ err.statusObj.status = "PENDING")

C5_Witness ==
  /\ op = "pollUntilProcessed"
  /\ poll.timeoutMs < poll.interval
  /\ Threw
  /\ IsPollTimeout(err)
  /\ Len(seen) = 2
  /\ seen[1].missing
  /\ err.statusObj.status = "PENDING"

(***************************************************************************)
(* C6.  submitPostWithFiles calls uploadFiles at most maxRetries+1 times;  *)
(* the wait after the n-th failed call is n times 300 ms; when the first k *)
(* calls failed and call k+1 succeeded, uploadFiles was called exactly k+1 *)
(* times, with the waits 300, 600, ..., k*300 between the calls and no     *)
(* wait after the successful call.                                         *)
(***************************************************************************)
UploadStepDone == WithFiles /\ pc \in {"loop", "query", "pollwait", "post"}

C6_BoundedLinearRetry ==
  WithFiles =>
    /\ UploadCalls <= cfg.maxRetries + 1
    /\ \A n \in DOMAIN BackoffWaits : BackoffWaits[n].ms = n * 300
    /\ \A n \in 1..(Len(BackoffWaits) - 1) : BackoffWaits[n].ms < BackoffWaits[n + 1].ms
    /\ Len(BackoffWaits) <= i
    /\ UploadStepDone =>
         /\ i <= cfg.maxRetries
         /\ UploadCalls = i + 1
         /\ RetryLog = CallsAndBackoffs(i, 300)

C6_Witness ==
  /\ UploadStepDone
  /\ cfg.maxRetries = 2
  /\ i = 2
  /\ UploadRequests = 3
  /\ RetryLog = CallsAndBackoffs(2, 300)

(***************************************************************************)
(* C7.  As claimed: uploadFiles itself carries the retry policy, so on a   *)
(* client with maxRetries >= 2 a call of the public uploadFiles survives   *)
(* two failures of the transport: while the transport was invoked fewer    *)
(* than 3 times the call has not failed.                                   *)
(***************************************************************************)
DirectUpload == op = "uploadFiles"

RetriesExhausted == WithFiles /\ i > cfg.maxRetries

C8_ExhaustedRetriesWrapLastError ==
  RetriesExhausted =>
    /\ Threw
    /\ UploadCalls = cfg.maxRetries + 1
    /\ Len(attemptErrs) = cfg.maxRetries + 1
    /\ err.message = <<"Uploading files failed: ">> \o attemptErrs[Len(attemptErrs)].message
    /\ StatusQueries = 0
    /\ PostRequests = 0

C8_Witness ==
  /\ RetriesExhausted
  /\ cfg.maxRetries = 2
  /\ Threw
  /\ attemptErrs[1].message # attemptErrs[3].message
  /\ attemptErrs[3].status = 500

(***************************************************************************)
(* C9.  Whenever a call fails because the service answered with a          *)
(* non-success HTTP status (for a status query: other than 404, which is   *)
(* not an error), the error the caller receives carries the parsed body of *)
(* that response, or null when the body does not parse.  This covers the   *)
(* error of submitPostWithFiles when its last upload attempt got such a    *)
(* response.                                                               *)
(***************************************************************************)
FailedByHttpStatus ==
  /\ Threw
  /\ lastResp.status # 0
  /\ ~RespOk(lastResp)
  /\ ~IsPollTimeout(err)

C9_RemoteErrorsCarryBody ==
  FailedByHttpStatus =>
    err.body = (IF lastResp.body.kind = "unparsable" THEN NullBody ELSE lastResp.body)

(***************************************************************************)
(* C10.  A call that fails validation issues no HTTP request: submitPost   *)
(* and submitPostWithFiles with a reply-permission that is supplied and is *)
(* not PUBLIC or PRIVATE in any letter case, or with a quote-post id that  *)
(* is supplied and has not the identifier shape; uploadFiles with a value  *)
(* that is no non-empty list, or with an item that has none of path,       *)
(* buffer and file.  Such a call has failed as soon as it was made (for    *)
(* uploadFiles: as soon as it ran), with an empty request log.             *)
(***************************************************************************)
BadReplyPermission(rp) ==
  /\ rp.t # "undefined"
  /\ ~(rp.t = "string" /\ ToUpperCase(rp.s) \in REPLY_PERMISSIONS)
BadQuotePostID(q) ==
  /\ q.t # "null"
  /\ LET id == Trim(q.s)
     IN ~(/\ q.t = "string"
          /\ Len(id) \in 24..32
          /\ IsLower(LowerOf(id[1]))
          /\ \A k \in 2..Len(id) : IsLower(LowerOf(id[k])) \/ id[k] \in Digits)
BadFiles(f) == ~f.isArray \/ f.items = <<>> \/ \E k \in DOMAIN f.items : IsBadItem(f.items[k])

InvalidPostCall ==
  /\ op \in {"submitPost", "submitPostWithFiles"}
  /\ BadReplyPermission(args.replyPermission) \/ BadQuotePostID(args.quotePostID)
InvalidUploadCall == op = "uploadFiles" /\ BadFiles(args.files)

C10_ValidationBeforeNetwork ==
  /\ InvalidPostCall => (Threw /\ log = <<>> /\ posts = <<>> /\ now = calledAt)
  /\ InvalidUploadCall =>
       /\ HttpRequests = <<>>
       /\ pc \in {"attempt", "done"}
       /\ Finished => (Threw /\ now = calledAt)

\* submitPostWithFiles with files to upload and an explicitly empty replyPermission.
C10_Witness ==
  /\ WithFiles
  /\ ~BadFiles(args.files)
  /\ args.replyPermission = JsStr(<<>>)
  /\ Threw
  /\ log = <<>>

(***************************************************************************)
(* C11.  In submitPostWithFiles a poll is begun only while time remains of *)
(* the overall budget.  When the loop reaches an upload id with the budget *)
(* exhausted (remaining time <= 0) the call fails with the error "Timeout  *)
(* while waiting for files to be processed": no status query was issued    *)
(* for that id or for any later one, and no post request was sent.         *)
(***************************************************************************)
IsDeadlineTimeout(e) == e.message = <<"Timeout while waiting for files to be processed">>
QueriedIds == {log[k].id : k \in {j \in DOMAIN log : IsStatusQuery(log[j])}}
\* The loop stands at an upload id whose poll was not begun, with nothing left of
\* the budget.
BudgetExhaustedAtLoopHead ==
  /\ WithFiles
  /\ idx \in DOMAIN uploads
  /\ pc \in {"loop", "done"}
  /\ poll.uploadId # uploads[idx]
  /\ remainingTime(args.timeoutMs, now, start) <= 0

C11_ExhaustedBudgetStopsLoop ==
  /\ PollRunning => remainingTime(args.timeoutMs, poll.start, start) > 0
  /\ (BudgetExhaustedAtLoopHead /\ Finished) =>
       /\ Threw
       /\ IsDeadlineTimeout(err)
  /\ BudgetExhaustedAtLoopHead =>
       /\ \A k \in idx..Len(uploads) : uploads[k] \notin QueriedIds
       /\ PostRequests = 0
       /\ posts = <<>>
  /\ (WithFiles /\ Threw /\ IsDeadlineTimeout(err)) => BudgetExhaustedAtLoopHead

\* The first upload resolved after the budget of 1000 ms had run out; the call
\* failed at the second one.
C11_Witness ==
  /\ BudgetExhaustedAtLoopHead
  /\ Threw
  /\ IsDeadlineTimeout(err)
  /\ idx = 2
  /\ Len(uploads) = 2
  /\ StatusQueries = 2
  /\ QueriedIds = {uploads[1]}

(***************************************************************************)
(* C12.  When submitPostWithFiles (non-empty file list) returns, exactly   *)
(* one post request was sent; its medias are the src values the polls      *)
(* resolved for the upload ids, one per id and in the order the upload     *)
(* step returned the ids, nothing added or dropped; the value returned is  *)
(* the parsed body of the response of the post endpoint, unmodified.       *)
(***************************************************************************)
\* The src each finished poll resolved, in the order of the polls.
ResolvedSrcs == [k \in DOMAIN observed |-> observed[k].s.src]

C12_MediasAreResolvedSrcs ==
  WithFiles =>
    /\ (pc = "post" \/ Returned) =>
         /\ Len(observed) = Len(uploads)
         /\ \A k \in DOMAIN uploads : observed[k].id = uploads[k]
         /\ payload.medias = ResolvedSrcs
         /\ \A k \in DOMAIN uploads : payload.medias[k] = SrcOf(uploads[k])
    /\ Returned =>
         /\ PostRequests = 1
         /\ posts = <<payload>>
         /\ Len(posts[1].medias) = Len(uploads)
         /\ RespOk(lastResp)
         /\ ret = [NoRet EXCEPT !.body = lastResp.body]

\* Two uploads resolved in order, posted in that order, the response returned.
C12_Witness ==
  /\ WithFiles
  /\ Returned
  /\ uploads = <<"U1", "U2">>
  /\ posts[1].medias = <<"S1", "S2">>
  /\ ret.body.post = "P1"

(***************************************************************************)
(* C13.  pollManyUntilProcessed over distinct ids, under every             *)
(* interleaving and completion order of its poll loops: the call returns   *)
(* exactly when every loop has resolved; the mapping it returns has the    *)
(* given ids as its keys, no other, and maps each id to the terminal       *)
(* status its own loop returned.  A loop that resolves DELETED or ATTACHED *)
(* has resolved like one that resolves PROCESSED: the batch does not fail  *)
(* on it.  Without ids the call returns the empty mapping at once.         *)
(***************************************************************************)
BatchPoll == op = "pollManyUntilProcessed"
AllResolved == \A k \in DOMAIN tasks : tasks[k].st = "resolved"
SomeRejected == \E k \in DOMAIN tasks : tasks[k].st = "rejected"
GivenIds == {uploadIds.items[k] : k \in DOMAIN uploadIds.items}

C13_BatchMapsOwnStatus ==
  BatchPoll =>
    /\ Len(tasks) = (IF uploadIds.isArray THEN Len(uploadIds.items) ELSE 0)
    /\ \A k \in DOMAIN tasks : tasks[k].id = uploadIds.items[k]
    /\ AllResolved <=> Returned
    /\ Returned =>
         /\ DOMAIN ret.body = (IF uploadIds.isArray THEN GivenIds ELSE {})
         /\ \A k \in DOMAIN tasks :
              /\ ret.body[tasks[k].id] = tasks[k].s
              /\ IsTerminal(tasks[k].s)
              /\ tasks[k].s.status = "PROCESSED" => tasks[k].s.src \in {"", SrcOf(tasks[k].id)}

\* Two loops that settled against the order of the ids, one of them DELETED.
C13_Witness ==
  /\ BatchPoll
  /\ Returned
  /\ uploadIds.items = <<"U1", "U2">>
  /\ settled = <<2, 1>>
  /\ ret.body["U1"].status = "DELETED"
  /\ ret.body["U2"].src = "S2"

(***************************************************************************)
(* C14.  In pollManyUntilProcessed, as soon as the poll loop of one id has *)
(* failed (poll timeout or failed status fetch) the call has failed, with  *)
(* the error of the first loop that failed, and has returned no mapping;   *)
(* it stays so whatever the other loops do before or after, and in         *)
(* whatever order the loops settle.                                        *)
(***************************************************************************)
C14_BatchFailsAsAWhole ==
  BatchPoll =>
    /\ SomeRejected <=> Threw
    /\ Threw =>
         /\ ret = NoRet
         /\ \E n \in DOMAIN settled :
              /\ tasks[settled[n]].st = "rejected"
              /\ \A j \in 1..(n - 1) : tasks[settled[j]].st = "resolved"
              /\ err = tasks[settled[n]].err

\* The second loop timed out first; the first loop resolved afterwards.
C14_Witness ==
  /\ BatchPoll
  /\ Threw
  /\ settled = <<2, 1>>
  /\ tasks[2].st = "rejected"
  /\ IsPollTimeout(err)
  /\ err.statusObj = tasks[2].s
  /\ tasks[1].st = "resolved"
  /\ tasks[1].s.status = "PROCESSED"

(***************************************************************************)
(* C15.  Every post request of submitPost and submitPostWithFiles carries  *)
(* a replyPermission that is the string PUBLIC or the string PRIVATE:      *)
(* PUBLIC when the caller omitted it, the upper-cased value when the value *)
(* supplied equals PUBLIC or PRIVATE in some letter case.  A call with an  *)
(* explicitly supplied empty or blank string, null or false, or with any   *)
(* other value, has failed validation with no request sent; it was not     *)
(* given the default.                                                      *)
(***************************************************************************)
PostCall == op \in {"submitPost", "submitPostWithFiles"}
EmptyReplyPermission(rp) ==
  rp \in {JsNull, JsBool(FALSE), JsStr(<<>>), JsStr(<<" ">>)}

C15_ReplyPermissionNormalised ==
  PostCall =>
    /\ \A k \in DOMAIN posts :
         /\ posts[k].replyPermission.t = "string"
         /\ posts[k].replyPermission.s \in {PUBLIC, <<"P", "R", "I", "V", "A", "T", "E">>}
    /\ (pc = "post" \/ posts # <<>>) =>
         /\ args.replyPermission.t \in {"undefined", "string"}
         /\ args.replyPermission.t = "undefined" => payload.replyPermission = JsStr(PUBLIC)
         /\ args.replyPermission.t = "string" =>
              /\ payload.replyPermission = JsStr(ToUpperCase(args.replyPermission.s))
              /\ ToLowerCase(args.replyPermission.s)
                   \in {<<"p", "u", "b", "l", "i", "c">>, <<"p", "r", "i", "v", "a", "t", "e">>}
         /\ \A k \in DOMAIN posts : posts[k] = payload
    /\ EmptyReplyPermission(args.replyPermission) =>
         /\ Threw
         /\ err.message = <<"replyPermission cannot be empty">>
         /\ log = <<>>
         /\ posts = <<>>
    /\ (BadReplyPermission(args.replyPermission)
          /\ ~EmptyReplyPermission(args.replyPermission)) =>
         /\ Threw
         /\ err.message = <<"replyPermission must be one of: PRIVATE, PUBLIC">>
         /\ log = <<>>
         /\ posts = <<>>

\* "Private" was supplied with files to upload; the post request carried PRIVATE.
C15_Witness ==
  /\ WithFiles
  /\ args.replyPermission = JsStr(<<"P", "r", "i", "v", "a", "t", "e">>)
  /\ Len(posts) = 1
  /\ posts[1].replyPermission = JsStr(<<"P", "R", "I", "V", "A", "T", "E">>)
  /\ Returned

(***************************************************************************)
(* C16.  In a call of submitPostWithFiles only the upload step is retried. *)
(* A status query that failed (transport error, timeout of the request, or *)
(* an HTTP status that is neither a success nor 404) and a post request    *)
(* that failed are the last request of the call: the call has failed with  *)
(* the error of that request, not retried and not swallowed.  At most one  *)
(* post request is sent per call.  A call that has not ended can always    *)
(* take its next step, and a call that ended did so either by returning    *)
(* the response of the post endpoint or with an error.                     *)
(***************************************************************************)
LastEvent == log[Len(log)]
RequestFailed == lastResp.status = 0 \/ ~RespOk(lastResp)
StatusQueryFailed ==
  /\ log # <<>>
  /\ IsStatusQuery(LastEvent)
  /\ RequestFailed
  /\ lastResp.status # 404
PostRequestFailed == log # <<>> /\ IsPostRequest(LastEvent) /\ RequestFailed
TransportErrors ==
  {<<"fetch failed">>, <<"Request timed out after", "ms">>}

C16_OnlyUploadRetried ==
  WithFiles =>
    /\ PostRequests <= 1
    /\ Len(posts) = PostRequests
    /\ StatusQueryFailed =>
         /\ Threw
         /\ PostRequests = 0
         /\ IF lastResp.status = 0 THEN err.message \in TransportErrors
            ELSE err.message = <<"Failed to fetch upload status">>
                 /\ err.status = lastResp.status
    /\ PostRequestFailed =>
         /\ Threw
         /\ IF lastResp.status = 0 THEN err.message \in TransportErrors
            ELSE err.message = <<"submit post failed">> /\ err.status = lastResp.status
    /\ pc \in {"attempt", "backoff", "loop", "query", "pollwait", "post", "done"}
    /\ pc = "attempt" => ENABLED UploadAttempt
    /\ pc = "backoff" => ENABLED Backoff
    /\ (pc = "loop" /\ idx <= Len(uploads)) => ENABLED LoopNext
    /\ (pc = "loop" /\ idx > Len(uploads)) =>
         submitPostPayload(finalSrcs, args.replyPermission, args.quotePostID).throws
           \in BOOLEAN
    /\ pc = "query" => ENABLED Query
    /\ pc = "pollwait" => ENABLED PollWait
    /\ pc = "post" => ENABLED Post
    /\ Finished =>
         \/ Threw
         \/ /\ Returned
            /\ PostRequests = 1
            /\ IsPostRequest(LastEvent)
            /\ ret.body = lastResp.body

\* The second upload's status query was answered 500 after the first upload had
\* resolved: the call failed there, with no post request.
C16_Witness ==
  /\ WithFiles
  /\ StatusQueryFailed
  /\ lastResp.status = 500
  /\ Len(observed) = 1
  /\ idx = 2
  /\ Threw
  /\ StatusQueries = 2
  /\ PostRequests = 0

(***************************************************************************)
(* C17.  fetchWithTimeout, the race of the transport against the timer.    *)
(* While the call is pending the timer is armed and timeoutMs has not      *)
(* passed.  When timeoutMs has elapsed with the transport still pending    *)
(* the timer fires, the request is aborted, and the call fails with the    *)
(* timeout error (code ETIMEDOUT); no other outcome carries that code.     *)
(* When the transport fails by itself the call fails with the transport's  *)
(* own error, without the code.  When the response arrives first it is     *)
(* returned as it is.  In every outcome the timer is no longer armed once  *)
(* the call has settled, so it cannot fire afterwards.                     *)
(***************************************************************************)
FetchCall == op = "fetchWithTimeout"

C17_TimerRace ==
  FetchCall =>
    /\ race.deadline = calledAt + args.timeoutMs
    /\ pc = "fetch" =>
         /\ race.timer = "armed"
         /\ race.transport = "pending"
         /\ ~race.aborted
         /\ now <= race.deadline
    /\ Finished =>
         /\ race.timer \in {"cleared", "fired"}
         /\ race.transport \in {"responded", "failed", "aborted"}
    /\ race.timer = "fired" <=> race.transport = "aborted"
    /\ race.transport = "aborted" <=> (Threw /\ err.code = "ETIMEDOUT")
    /\ race.transport = "aborted" =>
         /\ race.aborted
         /\ race.settledAt = race.deadline
         /\ err = TimedOutError
    /\ race.transport = "failed" =>
         /\ Threw
         /\ err = PlainErr(<<"fetch failed">>)
         /\ race.timer = "cleared"
         /\ ~race.aborted
         /\ race.settledAt < race.deadline
    /\ race.transport = "responded" =>
         /\ Returned
         /\ lastResp \in RaceResponses
         /\ ret = [NoRet EXCEPT !.body = lastResp.body]
         /\ race.timer = "cleared"
         /\ ~race.aborted
         /\ race.settledAt < race.deadline

\* A response that came in time; the clock has since passed the deadline and the
\* timer, cleared, did not fire.
C17_Witness ==
  /\ FetchCall
  /\ Returned
  /\ lastResp.status = 500
  /\ race.timer = "cleared"
  /\ race.settledAt > calledAt
  /\ now > race.deadline

(***************************************************************************)
(* C18.  pollUntilProcessed terminates.  Provided every status query       *)
(* settles and every interval wait elapses (the clock advancing with       *)
(* each), a call of pollUntilProcessed eventually ends, also when the      *)
(* source stays non-terminal or answers not-found for ever; it ends by     *)
(* returning a terminal status, by the poll timeout, or by a failed status *)
(* fetch, and a wait is never begun with the timeout elapsed.              *)
(***************************************************************************)
PollCalled == op = "pollUntilProcessed"
PollEnded ==
  PollCalled /\ Finished =>
    \/ Returned /\ IsTerminal(ret.body)
    \/ Threw /\ IsPollTimeout(err) /\ now - poll.start > poll.timeoutMs
    \/ Threw /\ RequestFailed /\ lastResp.status # 404
PollClockAdvances ==
  (PollCalled /\ pc = "pollwait") =>
    /\ now - poll.start <= poll.timeoutMs
    /\ now - poll.start >= (Len(seen) - 1) * poll.interval

C18_PollTerminates ==
  /\ [](PollEnded /\ PollClockAdvances)
  /\ PollCalled ~> Finished

\* A source that answered not-found three times: the third query, past the
\* timeout, ended the poll.
C18_Witness ==
  /\ PollCalled
  /\ Threw
  /\ IsPollTimeout(err)
  /\ Len(seen) = 3
  /\ \A k \in DOMAIN seen : seen[k].missing

(***************************************************************************)
(* C19.  retryAsync retries whatever uploadFiles throws.  When             *)
(* submitPostWithFiles is given a file item with none of path, buffer and  *)
(* file (its other arguments valid), every call of uploadFiles fails       *)
(* before any HTTP request; uploadFiles is nevertheless called             *)
(* maxRetries+1 times, with the backoff waits 300, 600, ... between the    *)
(* calls, and only then the call fails, with the wrapped error of the last *)
(* attempt.  No HTTP request is issued at any point.                       *)
(***************************************************************************)
BadItemCall ==
  /\ WithFiles
  /\ FirstBad(args.files.items) # 0
  /\ ~InvalidPostCall
LocalUploadErrors ==
  {<<"each file must contain either path, buffer, or file">>, <<"ENOENT">>}

C19_BadItemIsRetried ==
  BadItemCall =>
    /\ HttpRequests = <<>>
    /\ posts = <<>>
    /\ pc \in {"attempt", "backoff", "done"}
    /\ UploadCalls <= cfg.maxRetries + 1
    /\ UploadCalls = i
    /\ Len(attemptErrs) = i
    /\ \A k \in DOMAIN attemptErrs : attemptErrs[k].message \in LocalUploadErrors
    /\ pc = "attempt" =>
         log = (IF i = 0 THEN <<>>
                ELSE CallsAndBackoffs(i - 1, 300) \o <<Ev("wait", "", i * 300)>>)
    /\ Finished =>
         /\ Threw
         /\ UploadCalls = cfg.maxRetries + 1
         /\ log = CallsAndBackoffs(cfg.maxRetries, 300)
         /\ Len(BackoffWaits) = cfg.maxRetries
         /\ err = WrapUploadError(attemptErrs[Len(attemptErrs)])
         /\ now = calledAt + (300 * cfg.maxRetries * (cfg.maxRetries + 1)) \div 2

\* A single bad item, maxRetries = 2: three calls of uploadFiles, waits of 300 and
\* 600 ms, no request.
C19_Witness ==
  /\ BadItemCall
  /\ args.files.items = <<BadItem>>
  /\ cfg.maxRetries = 2
  /\ Threw
  /\ UploadCalls = 3
  /\ BackoffWaits = <<Ev("wait", "", 300), Ev("wait", "", 600)>>
  /\ now = calledAt + 900
  /\ err.message = <<"Uploading files failed: ",
                     "each file must contain either path, buffer, or file">>

(***************************************************************************)
(* C20.  submitPostWithFiles runs its steps in order and polls one upload  *)
(* at a time.  A status query is issued only after an upload attempt       *)
(* succeeded, and no upload attempt or backoff wait follows a status       *)
(* query.  The status queries go through the upload ids in the order the   *)
(* upload step returned them: a query for upload k+1 is issued only after  *)
(* the poll of upload k returned PROCESSED with a src.  Once an upload has *)
(* failed (DELETED or ATTACHED, PROCESSED without src, poll timeout, or a  *)
(* failed status fetch) the call has failed and no later upload was        *)
(* queried; the post request comes after every status query.               *)
(***************************************************************************)
QueryIds == [k \in DOMAIN SelectSeq(log, IsStatusQuery) |-> SelectSeq(log, IsStatusQuery)[k].id]
PositionOf(id) == CHOOSE k \in DOMAIN uploads : uploads[k] = id
\* The poll of the upload the loop stands at has failed.
UploadFailed ==
  /\ WithFiles
  /\ Threw
  /\ idx \in DOMAIN uploads
  /\ poll.uploadId = uploads[idx]

C20_StepsInOrder ==
  WithFiles =>
    /\ StatusQueries > 0 =>
         /\ uploads # <<>>
         /\ i <= cfg.maxRetries
         /\ UploadCalls = i + 1
         /\ log[1] = Ev("uploadFiles", "", 0)
    /\ \A a, b \in DOMAIN log :
         (a < b /\ IsStatusQuery(log[a])) => ~IsRetryEvent(log[b]) /\ ~IsUploadHttp(log[b])
    /\ \A a \in DOMAIN log : IsPostRequest(log[a]) => a = Len(log)
    /\ \A k \in DOMAIN QueryIds :
         /\ \E n \in DOMAIN uploads : uploads[n] = QueryIds[k]
         /\ k > 1 => PositionOf(QueryIds[k - 1]) <= PositionOf(QueryIds[k])
         /\ PositionOf(QueryIds[k]) <= idx
         /\ \A n \in 1..(PositionOf(QueryIds[k]) - 1) :
              /\ Len(observed) >= n
              /\ observed[n].id = uploads[n]
              /\ observed[n].s.status = "PROCESSED"
              /\ observed[n].s.src # ""
    /\ UploadFailed =>
         /\ PostRequests = 0
         /\ \A n \in (idx + 1)..Len(uploads) : uploads[n] \notin QueriedIds

\* After one failed upload attempt, two uploads were returned; the first was
\* PENDING, then ATTACHED: the call failed and the second was never queried.
C20_Witness ==
  /\ UploadFailed
  /\ i = 1
  /\ Len(uploads) = 2
  /\ idx = 1
  /\ QueryIds = <<"U1", "U1">>
  /\ Len(observed) = 1
  /\ observed[1].s.status = "ATTACHED"
  /\ "U2" \notin QueriedIds

=============================================================================
